---- MODULE Spec2Model ----
(***************************************************************************)
(* A model of the dead-link crawler of src/main.py: the main thread walks  *)
(* the sitemap tree (recursive_download), page tasks and validation tasks  *)
(* run in one ThreadPoolExecutor (process_page_and_links, check_link), and *)
(* the module-level sets visited_sitemaps, visited_links and the list      *)
(* dead_links are the shared state.                                        *)
(*                                                                         *)
(* Strings that the code inspects are sequences of one-character strings.  *)
(* A URL is the record urlparse() returns: scheme, host (netloc), path,    *)
(* query and fragment.  A sitemap URL is only ever compared for equality   *)
(* (visited_sitemaps is keyed by the raw string), so it is a string.       *)
(***************************************************************************)
EXTENDS Integers, Sequences, FiniteSets, TLC

\* ------------------------------------------------------------------ bounds

\* How many times test_and_download_sitemaps is called in one process.
MaxCrawls == 2

\* ------------------------------------------------------------ text helpers

\* str.lower() on one character (the alphabet of the model's URLs).
LowerChar(c) ==
    CASE c = "A" -> "a"
      [] c = "B" -> "b"
      [] c = "C" -> "c"
      [] c = "E" -> "e"
      [] c = "X" -> "x"
      [] OTHER -> c

\* str.lower() on a string.
Lower(s) == [i \in 1..Len(s) |-> LowerChar(s[i])]

\* str.rstrip('/') on a string.
RECURSIVE RStripSlash(_)
RStripSlash(s) ==
    IF s # <<>> /\ s[Len(s)] = "/" THEN RStripSlash(SubSeq(s, 1, Len(s) - 1)) ELSE s

\* str.endswith(suffix).
EndsWith(s, suffix) ==
    /\ Len(suffix) <= Len(s)
    /\ SubSeq(s, Len(s) - Len(suffix) + 1, Len(s)) = suffix

\* The suffixes of line 140: ".jpg", ".png", ".pdf", ".css", ".js".
ASSET_SUFFIXES ==
    { <<".", "j", "p", "g">>, <<".", "p", "n", "g">>, <<".", "p", "d", "f">>,
      <<".", "c", "s", "s">>, <<".", "j", "s">> }

\* Python's `needle in hay` on strings, scanning the start positions from i.
RECURSIVE StrInFrom(_, _, _)
StrInFrom(needle, hay, i) ==
    IF i + Len(needle) - 1 > Len(hay) THEN FALSE
    ELSE IF SubSeq(hay, i, i + Len(needle) - 1) = needle THEN TRUE
    ELSE StrInFrom(needle, hay, i + 1)

\* A slip: the two strings are compared for equality.
StrIn_Equal(needle, hay) == needle = hay

StrIn(needle, hay) == StrInFrom(needle, hay, 1)

\* ------------------------------------------------------------------- URLs

Url(scheme, host, path, query, fragment) ==
    [scheme |-> scheme, host |-> host, path |-> path,
     query |-> query, fragment |-> fragment]

NoUrl == Url("", <<>>, <<>>, <<>>, <<>>)

\* normalize_url: drop fragment and query, strip the path's trailing slashes,
\* lower-case the whole URL.
normalize_url(u) ==
    Url(u.scheme, Lower(u.host), Lower(RStripSlash(u.path)), <<>>, <<>>)

\* is_valid_http_url: the lower-cased URL starts with http:// or https://.
\* urlparse has already lower-cased the scheme of the record.
is_valid_http_url(u) == u.scheme \in {"http", "https"}

\* The text of a normalized URL after "scheme://": host followed by path.
UrlTail(u) == u.host \o u.path

\* Line 140: the normalized link ends with one of the asset suffixes.
IsAsset(n) == \E suf \in ASSET_SUFFIXES : EndsWith(Lower(UrlTail(n)), suf)

\* ------------------------------------------------------------ HTTP results

Status(code) == [kind |-> "int", code |-> code]
TransportError == [kind |-> "err", code |-> 0]
NoStatus == [kind |-> "none", code |-> 0]

\* Line 103: isinstance(status, int) and status < 400.
IsLive(st) == st.kind = "int" /\ st.code < 400

\* ------------------------------------------------------------------ sites
\* The web sites a crawl is run against.  A site fixes what every request
\* answers: the sitemap documents, the HTML pages and the HEAD results.

\* SITEMAP_PATHS, lines 22-29.  A string stands for base_url + path.
SITEMAP_PATHS ==
    << "/sitemap.xml", "/sitemap_index.xml", "/sitemap-index.xml",
       "/sitemap/sitemap.xml", "/sitemap1.xml", "/sitemap/sitemap-index.xml" >>

\* A nested <loc> that urlparse rejects (ValueError: Invalid IPv6 URL).
BadLoc == "http://[bad"

\* Hosts: e.c is the audited domain, n.e.c a subdomain, o.g another site.
HostEC == <<"e", ".", "c">>
HostUpperEC == <<"E", ".", "C">>
HostNEC == <<"n", ".", "e", ".", "c">>
HostOG == <<"o", ".", "g">>

Http(host, path) == Url("http", host, path, <<>>, <<>>)

PageA == Http(HostEC, <<"/", "a">>)
PageARaw == Url("http", HostUpperEC, <<"/", "A", "/">>, <<"q">>, <<"f">>)
PageB == Http(HostEC, <<"/", "b">>)
PageBSlash == Http(HostEC, <<"/", "b", "/">>)
PageX == Http(HostEC, <<"/", "x">>)
PageXRaw == Url("http", HostEC, <<"/", "X", "/">>, <<>>, <<"f">>)
PageMissing == Http(HostEC, <<"/", "m">>)
AssetJs == Http(HostEC, <<"/", "i", ".", "j", "s">>)
CdnX == Http(HostNEC, <<"/", "x">>)
OtherD == Http(HostOG, <<"/", "d">>)
MailTo == Url("mailto", <<>>, <<"x">>, <<>>, <<>>)

\* What download_sitemap and the two parsers give for a sitemap URL: ok is
\* "status 200 with an XML content type", nested the <sitemap><loc> entries,
\* pages the <url><loc> entries (both empty for malformed XML).
Doc(nested, pages) == [ok |-> TRUE, nested |-> nested, pages |-> pages]
NoDoc == [ok |-> FALSE, nested |-> <<>>, pages |-> <<>>]

SiteIds == {"scenario", "shared", "cyclic", "malformed"}

\* base_url as the caller gave it: its netloc (get_domain_name keeps the case).
BaseHost(s) == IF s = "malformed" THEN HostUpperEC ELSE HostEC

SitemapDoc(s, url) ==
    CASE s = "scenario" /\ url = "/sitemap.xml" -> Doc(<<"/s1.xml">>, <<>>)
      [] s = "scenario" /\ url = "/s1.xml" -> Doc(<<>>, <<PageA, PageB>>)
      [] s = "shared" /\ url = "/sitemap.xml" ->
            Doc(<<>>, <<PageARaw, PageBSlash>>)
      [] s = "cyclic" /\ url = "/sitemap.xml" ->
            Doc(<<"/sitemap_index.xml", "/s1.xml", "/sitemap.xml">>, <<>>)
      [] s = "cyclic" /\ url = "/sitemap_index.xml" ->
            Doc(<<"/sitemap.xml", "/sitemap_index.xml", "/s2.xml">>, <<PageX>>)
      [] s = "cyclic" /\ url = "/s1.xml" -> Doc(<<>>, <<MailTo, PageA, AssetJs>>)
      [] s = "cyclic" /\ url = "/sitemap1.xml" -> Doc(<<>>, <<>>)
      [] s = "malformed" /\ url = "/sitemap.xml" -> Doc(<<>>, <<AssetJs>>)
      [] s = "malformed" /\ url = "/sitemap_index.xml" ->
            Doc(<<BadLoc, "/s1.xml">>, <<>>)
      [] s = "malformed" /\ url = "/s1.xml" -> Doc(<<>>, <<PageA>>)
      [] OTHER -> NoDoc

\* The <a href> targets (after urljoin) of the HTML page at a normalized URL.
PageLinks(s, n) ==
    CASE s = "scenario" /\ n = PageA -> <<PageMissing>>
      [] s = "shared" /\ n = PageA -> <<PageBSlash, PageXRaw, OtherD>>
      [] s = "shared" /\ n = PageB -> <<PageX, PageARaw>>
      [] s = "cyclic" /\ n = PageA -> <<MailTo, PageMissing, CdnX, PageB>>
      [] OTHER -> <<>>

\* What requests.head gives for a normalized URL.
HeadStatus(s, n) ==
    CASE n = PageMissing -> Status(404)
      [] s = "shared" /\ n = PageB -> Status(500)
      [] s = "shared" /\ n = PageX -> Status(404)
      [] s = "shared" /\ n = OtherD -> Status(404)
      [] n = AssetJs -> TransportError
      [] n = CdnX -> Status(404)
      [] OTHER -> Status(200)

\* urlparse(url) at line 165 raises for this sitemap URL.
UrlparseRaises(url) == url = BadLoc

\* ThreadPoolExecutor(max_workers=15), line 301.
max_workers == 15

\* The pool sizes of the model: the program's, and two small ones.
PoolSizes == {1, 2, max_workers}

\* ------------------------------------------------------------------ state

VARIABLES
    site,              \* the site base_url names (fixed for a behaviour)
    workers,           \* the pool's max_workers (fixed for a behaviour)
    visited_sitemaps,  \* line 12
    visited_links,     \* line 13
    dead_links,        \* line 14
    dead_links_lock,   \* line 19: 0 when free, else the task holding it
    main_pc,           \* where the main thread is
    raised,            \* an exception is propagating out of the with-block
    path_idx,          \* the for loop over SITEMAP_PATHS, line 302
    stack,             \* the recursive_download frames, innermost last
    pool_open,         \* the executor accepts submits (inside the with-block)
    tasks,             \* every work item submitted to the executor, in order
    crawls,            \* calls of test_and_download_sitemaps so far
    fetch_log,         \* history: sitemap URLs given to download_sitemap
    extract_log,       \* history: URLs given to extract_links_from_page
    rejected           \* history: submits refused by a shut-down executor

vars ==
    << site, workers, visited_sitemaps, visited_links, dead_links,
       dead_links_lock, main_pc, raised, path_idx, stack, pool_open, tasks,
       crawls, fetch_log, extract_log, rejected >>

shared == << visited_sitemaps, visited_links, dead_links, dead_links_lock >>
mainv == << main_pc, raised, path_idx, stack, pool_open, crawls, fetch_log >>
fixed == << site, workers >>

\* Module load, lines 12-19: empty sets, empty list, free locks.
Init ==
    /\ site \in SiteIds
    /\ workers \in PoolSizes
    /\ visited_sitemaps = {}
    /\ visited_links = {}
    /\ dead_links = <<>>
    /\ dead_links_lock = 0
    /\ main_pc = "idle"
    /\ raised = FALSE
    /\ path_idx = 0
    /\ stack = <<>>
    /\ pool_open = FALSE
    /\ tasks = <<>>
    /\ crawls = 0
    /\ fetch_log = <<>>
    /\ extract_log = <<>>
    /\ rejected = 0

\* ------------------------------------------------------------- the executor

PageTask(link, local_file) ==
    [kind |-> "page", pc |-> "queued", url |-> link, origin |-> local_file,
     norm |-> NoUrl, inner |-> <<>>, idx |-> 0, norm_inner |-> NoUrl,
     status |-> NoStatus, crawl |-> crawls]

CheckTask(url, origin) ==
    [kind |-> "check", pc |-> "queued", url |-> url, origin |-> origin,
     norm |-> NoUrl, inner |-> <<>>, idx |-> 0, norm_inner |-> NoUrl,
     status |-> NoStatus, crawl |-> crawls]

Running == {t \in DOMAIN tasks : tasks[t].pc \notin {"queued", "done"}}
Queued == {t \in DOMAIN tasks : tasks[t].pc = "queued"}
AllDone(ts) == \A t \in ts : tasks[t].pc = "done"

\* executor.submit: the work item joins the queue; a shut-down executor
\* refuses it (RuntimeError in the submitting thread).
Submit(item) ==
    /\ tasks' = IF pool_open THEN Append(tasks, item) ELSE tasks
    /\ rejected' = IF pool_open THEN rejected ELSE rejected + 1

\* The same, from a task that also moves itself to `next`.
SubmitFrom(t, next, item) ==
    /\ tasks' = IF pool_open THEN Append([tasks EXCEPT ![t] = next], item)
                ELSE [tasks EXCEPT ![t] = next]
    /\ rejected' = IF pool_open THEN rejected ELSE rejected + 1

\* The local file download_sitemap wrote for a sitemap URL (lines 52-53,
\* 165-166), as the URL record normalize_url parses it into in check_link.
LocalFile(url) == Url("", <<>>, <<"x", "m", "l", "/">> \o <<url>>, <<>>, <<>>)

\* Another design: the traversal is itself a work item, so that while it is
\* active it occupies one of the pool's threads.
StartTask_TraversalInPool(t) ==
    /\ t \in Queued
    /\ \A u \in Queued : t <= u
    /\ Cardinality(Running) + (IF stack # <<>> THEN 1 ELSE 0) < workers
    /\ tasks' = [tasks EXCEPT ![t].pc = IF tasks[t].kind = "page" THEN "claim" ELSE "head"]
    /\ UNCHANGED << shared, mainv, fixed, extract_log, rejected >>

\* A worker thread takes the oldest queued work item.
StartTask(t) ==
    /\ t \in Queued
    /\ \A u \in Queued : t <= u
    /\ Cardinality(Running) < workers
    /\ tasks' = [tasks EXCEPT ![t].pc = IF tasks[t].kind = "page" THEN "claim" ELSE "head"]
    /\ UNCHANGED << shared, mainv, fixed, extract_log, rejected >>

\* ------------------------------------------- process_page_and_links tasks

\* domain_name, line 298: the netloc of base_url, passed on as root_domain.
root_domain == BaseHost(site)

\* A slip: the membership test always answers "absent".
tryClaim_AlwaysAbsent(n) == TRUE

\* Lines 136 and 153: the normalized link is not in visited_links yet.
tryClaim(n) == n \notin visited_links

\* Lines 131-138: skip a non-HTTP link; otherwise check and insert the
\* normalized link under visited_links_lock.  The lock guards every access to
\* visited_links and nothing else, so the critical section is one step.

PageClaim(t) ==
    /\ tasks[t].kind = "page" /\ tasks[t].pc = "claim"
    /\ LET n == normalize_url(tasks[t].url) IN
         IF is_valid_http_url(tasks[t].url) /\ tryClaim(n)
         THEN /\ visited_links' = visited_links \cup {n}
              /\ tasks' = [tasks EXCEPT ![t].pc = "dispatch", ![t].norm = n]
         ELSE /\ tasks' = [tasks EXCEPT ![t].pc = "done"]
              /\ UNCHANGED visited_links
    /\ UNCHANGED << visited_sitemaps, dead_links, dead_links_lock, mainv, fixed,
                    extract_log, rejected >>

\* Line 144 onwards for a claimed page, after the asset test of line 140:
\* the links extract_links_from_page finds, then the loop of line 148.
Extracted(t) ==
    LET links == PageLinks(site, tasks[t].norm) IN
    [tasks[t] EXCEPT !.inner = links, !.idx = 1,
                     !.pc = IF links = <<>> THEN "done" ELSE "inner"]

\* Lines 140-144: an asset is submitted for validation and the task returns;
\* any other link is fetched for its inner links.
PageDispatch(t) ==
    /\ tasks[t].kind = "page" /\ tasks[t].pc = "dispatch"
    /\ IF IsAsset(tasks[t].norm)
       THEN /\ SubmitFrom(t, [tasks[t] EXCEPT !.pc = "done"],
                          CheckTask(tasks[t].norm, tasks[t].origin))
            /\ UNCHANGED extract_log
       ELSE /\ tasks' = [tasks EXCEPT ![t] = Extracted(t)]
            /\ extract_log' = Append(extract_log, tasks[t].norm)
            /\ UNCHANGED rejected
    /\ UNCHANGED << shared, mainv, fixed >>

\* The loop of line 148 moves on to the next inner link, or the task returns.
Advanced(task) ==
    [task EXCEPT !.idx = task.idx + 1, !.norm_inner = NoUrl,
                 !.pc = IF task.idx + 1 > Len(task.inner) THEN "done" ELSE "inner"]

\* A slip: a new inner link goes on to validation without being inserted
\* into visited_links.
PageInnerClaim_NoInsert(t) ==
    /\ tasks[t].kind = "page" /\ tasks[t].pc = "inner"
    /\ LET inner == tasks[t].inner[tasks[t].idx]
           n == normalize_url(inner) IN
         IF is_valid_http_url(inner) /\ tryClaim(n)
         THEN tasks' = [tasks EXCEPT ![t].pc = "submit", ![t].norm_inner = n]
         ELSE tasks' = [tasks EXCEPT ![t] = Advanced(tasks[t])]
    /\ UNCHANGED << shared, mainv, fixed, extract_log, rejected >>

\* Lines 149-155: skip a non-HTTP inner link; otherwise check and insert its
\* normalized form under visited_links_lock.
PageInnerClaim(t) ==
    /\ tasks[t].kind = "page" /\ tasks[t].pc = "inner"
    /\ LET inner == tasks[t].inner[tasks[t].idx]
           n == normalize_url(inner) IN
         IF is_valid_http_url(inner) /\ tryClaim(n)
         THEN /\ visited_links' = visited_links \cup {n}
              /\ tasks' = [tasks EXCEPT ![t].pc = "submit", ![t].norm_inner = n]
         ELSE /\ tasks' = [tasks EXCEPT ![t] = Advanced(tasks[t])]
              /\ UNCHANGED visited_links
    /\ UNCHANGED << visited_sitemaps, dead_links, dead_links_lock, mainv, fixed,
                    extract_log, rejected >>

\* Lines 157-158: the claimed inner link is submitted for validation.
PageInnerSubmit(t) ==
    /\ tasks[t].kind = "page" /\ tasks[t].pc = "submit"
    /\ SubmitFrom(t, Advanced(tasks[t]),
                  CheckTask(tasks[t].norm_inner, tasks[t].norm))
    /\ UNCHANGED << shared, mainv, fixed, extract_log >>

\* ------------------------------------------------------- check_link tasks

\* Lines 98-113: the record check_link appends.
DeadLinkRecord(url, origin, status) ==
    LET dest == normalize_url(url)
        dest_domain == dest.host
    IN  ("Origin Page" :> normalize_url(origin)) @@
        ("Dead Link" :> dest) @@
        ("Status/Error" :> status) @@
        ("Domain" :> dest_domain) @@
        ("Type" :> IF StrIn(root_domain, dest_domain) THEN "Internal" ELSE "External")

\* Lines 92-104: the HEAD probe; a status below 400 ends the task.
CheckHead(t) ==
    /\ tasks[t].kind = "check" /\ tasks[t].pc = "head"
    /\ LET st == HeadStatus(site, tasks[t].url) IN
         tasks' = [tasks EXCEPT ![t].status = st,
                                ![t].pc = IF IsLive(st) THEN "done" ELSE "lock"]
    /\ UNCHANGED << shared, mainv, fixed, extract_log, rejected >>

\* A slip: the append is reached without taking dead_links_lock.
CheckLock_NoAcquire(t) ==
    /\ tasks[t].kind = "check" /\ tasks[t].pc = "lock"
    /\ tasks' = [tasks EXCEPT ![t].pc = "append"]
    /\ UNCHANGED << shared, mainv, fixed, extract_log, rejected >>

\* Line 106: acquire dead_links_lock.
CheckLock(t) ==
    /\ tasks[t].kind = "check" /\ tasks[t].pc = "lock"
    /\ dead_links_lock = 0
    /\ dead_links_lock' = t
    /\ tasks' = [tasks EXCEPT ![t].pc = "append"]
    /\ UNCHANGED << visited_sitemaps, visited_links, dead_links, mainv, fixed,
                    extract_log, rejected >>

\* Lines 107-113: append the record and release the lock.
CheckAppend(t) ==
    /\ tasks[t].kind = "check" /\ tasks[t].pc = "append"
    /\ dead_links' = Append(dead_links,
                            DeadLinkRecord(tasks[t].url, tasks[t].origin, tasks[t].status))
    /\ dead_links_lock' = 0
    /\ tasks' = [tasks EXCEPT ![t].pc = "done"]
    /\ UNCHANGED << visited_sitemaps, visited_links, mainv, fixed,
                    extract_log, rejected >>

\* --------------------------------------- the main thread: the traversal

\* One activation of recursive_download(url, ...).
Frame(url) ==
    [url |-> url, pc |-> "enter", items |-> <<>>, idx |-> 0, futures |-> {}]

Top == stack[Len(stack)]
Popped == SubSeq(stack, 1, Len(stack) - 1)
WithTop(f) == [stack EXCEPT ![Len(stack)] = f]
InFrame(pc) == main_pc = "crawl" /\ stack # <<>> /\ Top.pc = pc

\* Lines 294-301: a call of test_and_download_sitemaps opens a new executor.
\* The module-level sets and the list are not touched.
CallCrawl ==
    /\ main_pc = "idle"
    /\ crawls < MaxCrawls
    /\ crawls' = crawls + 1
    /\ main_pc' = "crawl"
    /\ path_idx' = 1
    /\ pool_open' = TRUE
    /\ UNCHANGED << shared, fixed, raised, stack, tasks, fetch_log,
                    extract_log, rejected >>

\* Lines 302-304: the next entry path is handed to recursive_download.
NextPath ==
    /\ main_pc = "crawl" /\ stack = <<>>
    /\ path_idx <= Len(SITEMAP_PATHS)
    /\ stack' = <<Frame(SITEMAP_PATHS[path_idx])>>
    /\ path_idx' = path_idx + 1
    /\ UNCHANGED << shared, fixed, main_pc, raised, pool_open, tasks, crawls,
                    fetch_log, extract_log, rejected >>

\* A slip: the visited test of line 161 is left out.
AlreadyVisited_Never(url) == FALSE

\* Line 161: the URL was dispatched before.
AlreadyVisited(url) == url \in visited_sitemaps

\* Lines 161-167: return for a visited URL; otherwise record it, then take
\* its path apart and make its directory.  urlparse raising there is not
\* caught anywhere: the exception leaves the with-block, whose exit shuts the
\* executor down.
RD_Enter ==
    /\ InFrame("enter")
    /\ IF AlreadyVisited(Top.url)
       THEN /\ stack' = Popped
            /\ UNCHANGED << visited_sitemaps, main_pc, raised, pool_open >>
       ELSE /\ visited_sitemaps' = visited_sitemaps \cup {Top.url}
            /\ IF UrlparseRaises(Top.url)
               THEN /\ stack' = <<>>
                    /\ raised' = TRUE
                    /\ pool_open' = FALSE
                    /\ main_pc' = "shutdown"
               ELSE /\ stack' = WithTop([Top EXCEPT !.pc = "download"])
                    /\ UNCHANGED << main_pc, raised, pool_open >>
    /\ UNCHANGED << visited_links, dead_links, dead_links_lock, fixed, path_idx,
                    tasks, crawls, fetch_log, extract_log, rejected >>

\* A slip: the page links are looked at first, the nested sitemaps only
\* when there are none.
Downloaded_PagesFirst(f, doc) ==
    IF doc.pages # <<>>
    THEN [f EXCEPT !.pc = "submit", !.items = doc.pages, !.idx = 1]
    ELSE [f EXCEPT !.pc = IF doc.nested = <<>> THEN "wait" ELSE "nested",
                   !.items = doc.nested, !.idx = 1]

\* Lines 169-179: fetch the document; without one, return.  With nested
\* sitemaps the frame walks them, otherwise it submits the page links.
Downloaded(f, doc) ==
    IF doc.nested # <<>>
    THEN [f EXCEPT !.pc = "nested", !.items = doc.nested, !.idx = 1]
    ELSE [f EXCEPT !.pc = IF doc.pages = <<>> THEN "wait" ELSE "submit",
                   !.items = doc.pages, !.idx = 1]

\* A slip: a failed fetch gives up the whole traversal of the entry path.
RD_Download_FailUnwinds ==
    /\ InFrame("download")
    /\ fetch_log' = Append(fetch_log, Top.url)
    /\ LET doc == SitemapDoc(site, Top.url) IN
         stack' = IF doc.ok THEN WithTop(Downloaded(Top, doc)) ELSE <<>>
    /\ UNCHANGED << shared, fixed, main_pc, raised, path_idx, pool_open, tasks,
                    crawls, extract_log, rejected >>

\* Lines 169-171 and 173-179: the fetch, and what the frame does next.
RD_Download ==
    /\ InFrame("download")
    /\ fetch_log' = Append(fetch_log, Top.url)
    /\ LET doc == SitemapDoc(site, Top.url) IN
         stack' = IF doc.ok THEN WithTop(Downloaded(Top, doc)) ELSE Popped
    /\ UNCHANGED << shared, fixed, main_pc, raised, path_idx, pool_open, tasks,
                    crawls, extract_log, rejected >>

\* Lines 175-176: recurse into the next nested sitemap; after the last, return.
RD_Nested ==
    /\ InFrame("nested")
    /\ stack' = IF Top.idx <= Len(Top.items)
                THEN Append(WithTop([Top EXCEPT !.idx = Top.idx + 1]),
                            Frame(Top.items[Top.idx]))
                ELSE Popped
    /\ UNCHANGED << shared, fixed, main_pc, raised, path_idx, pool_open, tasks,
                    crawls, fetch_log, extract_log, rejected >>

\* A slip: the future of the submitted page task is not kept.
RD_Submit_NoFuture ==
    /\ InFrame("submit")
    /\ Submit(PageTask(Top.items[Top.idx], LocalFile(Top.url)))
    /\ stack' = WithTop([Top EXCEPT
                    !.idx = Top.idx + 1,
                    !.pc = IF Top.idx + 1 > Len(Top.items) THEN "wait" ELSE "submit"])
    /\ UNCHANGED << shared, fixed, main_pc, raised, path_idx, pool_open, crawls,
                    fetch_log, extract_log >>

\* Lines 182-183: submit a page task for the next page link.
RD_Submit ==
    /\ InFrame("submit")
    /\ Submit(PageTask(Top.items[Top.idx], LocalFile(Top.url)))
    /\ stack' = WithTop([Top EXCEPT
                    !.idx = Top.idx + 1,
                    !.futures = IF pool_open THEN Top.futures \cup {Len(tasks) + 1}
                                ELSE Top.futures,
                    !.pc = IF Top.idx + 1 > Len(Top.items) THEN "wait" ELSE "submit"])
    /\ UNCHANGED << shared, fixed, main_pc, raised, path_idx, pool_open, crawls,
                    fetch_log, extract_log >>

\* A slip: the traversal returns without waiting for its page tasks.
RD_Wait_NoWait ==
    /\ InFrame("wait")
    /\ stack' = Popped
    /\ UNCHANGED << shared, fixed, main_pc, raised, path_idx, pool_open, tasks,
                    crawls, fetch_log, extract_log, rejected >>

\* Lines 185-186: as_completed returns once every page task has finished.
RD_Wait ==
    /\ InFrame("wait")
    /\ AllDone(Top.futures)
    /\ stack' = Popped
    /\ UNCHANGED << shared, fixed, main_pc, raised, path_idx, pool_open, tasks,
                    crawls, fetch_log, extract_log, rejected >>

\* Line 301, leaving the with-block after the last entry path: shutdown
\* begins and no submit is accepted any more.
BeginShutdown ==
    /\ main_pc = "crawl" /\ stack = <<>>
    /\ path_idx > Len(SITEMAP_PATHS)
    /\ pool_open' = FALSE
    /\ main_pc' = "shutdown"
    /\ UNCHANGED << shared, fixed, raised, path_idx, stack, tasks, crawls,
                    fetch_log, extract_log, rejected >>

\* A slip: the executor is shut down without waiting (wait=False).
EndShutdown_NoWait ==
    /\ main_pc = "shutdown"
    /\ main_pc' = IF raised THEN "aborted" ELSE "report"
    /\ UNCHANGED << shared, fixed, raised, path_idx, stack, pool_open, tasks,
                    crawls, fetch_log, extract_log, rejected >>

\* shutdown(wait=True) returns when every work item has run; then reporting
\* starts, or the exception that left the with-block ends the program.
EndShutdown ==
    /\ main_pc = "shutdown"
    /\ AllDone(DOMAIN tasks)
    /\ main_pc' = IF raised THEN "aborted" ELSE "report"
    /\ UNCHANGED << shared, fixed, raised, path_idx, stack, pool_open, tasks,
                    crawls, fetch_log, extract_log, rejected >>

\* Lines 306-321: the reports are written from visited_sitemaps and
\* dead_links, and the call returns.
Report ==
    /\ main_pc = "report"
    /\ main_pc' = "idle"
    /\ UNCHANGED << shared, fixed, raised, path_idx, stack, pool_open, tasks,
                    crawls, fetch_log, extract_log, rejected >>

\* ------------------------------------------------------------------- Next

Next ==
    \/ CallCrawl
    \/ NextPath
    \/ RD_Enter
    \/ RD_Download
    \/ RD_Nested
    \/ RD_Submit
    \/ RD_Wait
    \/ BeginShutdown
    \/ EndShutdown
    \/ Report
    \/ \E t \in DOMAIN tasks : StartTask(t)
    \/ \E t \in DOMAIN tasks : PageClaim(t)
    \/ \E t \in DOMAIN tasks : PageDispatch(t)
    \/ \E t \in DOMAIN tasks : PageInnerClaim(t)
    \/ \E t \in DOMAIN tasks : PageInnerSubmit(t)
    \/ \E t \in DOMAIN tasks : CheckHead(t)
    \/ \E t \in DOMAIN tasks : CheckLock(t)
    \/ \E t \in DOMAIN tasks : CheckAppend(t)

Spec == Init /\ [][Next]_vars

\* Fairness: the main thread keeps running, and the executor's worker
\* threads keep running the work items they hold.
MainStep ==
    \/ CallCrawl \/ NextPath \/ RD_Enter \/ RD_Download \/ RD_Nested
    \/ RD_Submit \/ RD_Wait \/ BeginShutdown \/ EndShutdown \/ Report

WorkerStep ==
    \E t \in DOMAIN tasks :
        \/ StartTask(t) \/ PageClaim(t) \/ PageDispatch(t) \/ PageInnerClaim(t)
        \/ PageInnerSubmit(t) \/ CheckHead(t) \/ CheckLock(t) \/ CheckAppend(t)

FairSpec == Spec /\ WF_vars(MainStep) /\ WF_vars(WorkerStep)

\* ------------------------------------------------------ history operators

\* The validation tasks (check_link work items) submitted for a URL.
ChecksOf(n) == {t \in DOMAIN tasks : tasks[t].kind = "check" /\ tasks[t].url = n}

\* How often a URL was handed to extract_links_from_page.
ExtractsOf(n) == Cardinality({i \in DOMAIN extract_log : extract_log[i] = n})

\* The sitemap URLs whose fetch gave a document.
FetchedOk == {fetch_log[i] : i \in {j \in DOMAIN fetch_log : SitemapDoc(site, fetch_log[j]).ok}}

\* The page URLs of the urlset documents fetched so far.
UrlsetPages ==
    UNION { {SitemapDoc(site, u).pages[i] : i \in DOMAIN SitemapDoc(site, u).pages} :
            u \in {v \in FetchedOk : SitemapDoc(site, v).nested = <<>>} }

\* The reporting phase of a crawl: the with-block is left, the reports are
\* about to be written.
AtReport == main_pc = "report"

\* ----------------------------------------------------------------- claims

\* C1: for every normalized link discovered in a crawl (a page URL of a
\* urlset and/or an inner link, by any number of page tasks), exactly one
\* validation task is scheduled.
C1_ExactlyOneValidationTask ==
    AtReport => \A n \in visited_links : Cardinality(ChecksOf(n)) = 1

\* C2: at the end of the crawl every HTTP(S) page URL of a fetched urlset has
\* been probed by check_link, and is in dead_links when the probe says dead.
C2_PageUrlsValidated ==
    AtReport =>
        \A p \in {q \in UrlsetPages : is_valid_http_url(q)} :
            /\ \E t \in ChecksOf(normalize_url(p)) : tasks[t].status # NoStatus
            /\ ~IsLive(HeadStatus(site, normalize_url(p))) =>
                  \E i \in DOMAIN dead_links :
                      dead_links[i]["Dead Link"] = normalize_url(p)

\* C3: the sitemap set handed to reporting is exactly the set of sitemap
\* URLs whose fetch succeeded.
C3_SitemapSetIsFetchedOk ==
    AtReport => visited_sitemaps = FetchedOk

\* The dead-link collection the scenario of the specification expects.
C4_ScenarioDeadLinks ==
    /\ Len(dead_links) = 1
    /\ dead_links[1]["Dead Link"] = PageMissing
    /\ dead_links[1]["Type"] = "Internal"

\* C4: the scenario of the specification ends with the sitemap set
\* {/sitemap.xml, /s1.xml} and exactly one dead-link record, for the missing
\* page, classified Internal.
C4_Scenario ==
    (site = "scenario" /\ AtReport /\ crawls = 1) =>
        /\ visited_sitemaps = {"/sitemap.xml", "/s1.xml"}
        /\ C4_ScenarioDeadLinks

\* C5: under fair scheduling the crawl reaches the reporting phase, whatever
\* the site and the pool size; no error aborts it.
C5_CrawlReachesReport == <>(main_pc = "report")

\* The same for the sites all of whose sitemap URLs urlparse accepts: every
\* call of test_and_download_sitemaps returns (cyclic indexes, failed
\* fetches, empty documents and a pool of one worker included).
TerminatesWhenUrlsParse ==
    (site # "malformed") => <>(main_pc = "idle" /\ crawls = MaxCrawls)

\* C6: no sitemap URL is given to download_sitemap twice, and a URL is in
\* visited_sitemaps before its fetch is issued (the frame that fetches it has
\* passed the check of line 161, and only the innermost frame runs).
C6_SitemapFetchedAtMostOnce ==
    /\ \A i, j \in DOMAIN fetch_log : i # j => fetch_log[i] # fetch_log[j]
    /\ \A i \in DOMAIN fetch_log : fetch_log[i] \in visited_sitemaps
    /\ \A k \in DOMAIN stack :
          stack[k].pc # "enter" => stack[k].url \in visited_sitemaps
    /\ \A k \in DOMAIN stack : k < Len(stack) => stack[k].pc = "nested"

\* An index document lists its own URL; the traversal has come back from
\* that entry, and the URL was fetched once.
C6_Witness ==
    /\ stack # <<>> /\ Top.pc = "nested"
    /\ \E k \in 1..(Top.idx - 1) : Top.items[k] = Top.url
    /\ Cardinality({i \in DOMAIN fetch_log : fetch_log[i] = Top.url}) = 1

\* The URLs that were extracted from or submitted for validation.
Processed ==
    {extract_log[i] : i \in DOMAIN extract_log}
        \cup {tasks[t].url : t \in {u \in DOMAIN tasks : tasks[u].kind = "check"}}

\* C7: a normalized link is extracted from or submitted for validation at
\* most once in all, only after it was claimed; only non-asset page URLs are
\* extracted from, only asset page URLs and inner links are validated; and
\* when the crawl is over every claimed link has had exactly one of the two.
C7_EachLinkOnceInOneRole ==
    /\ \A n \in Processed \cup visited_links :
          /\ ExtractsOf(n) + Cardinality(ChecksOf(n)) <= 1
          /\ n \in visited_links
          /\ ExtractsOf(n) = 1 =>
                /\ ~IsAsset(n)
                /\ \E p \in UrlsetPages : normalize_url(p) = n
          /\ \A t \in ChecksOf(n) :
                \/ IsAsset(n) /\ \E p \in UrlsetPages : normalize_url(p) = n
                \/ ExtractsOf(tasks[t].origin) = 1
    /\ AtReport =>
          \A n \in visited_links : ExtractsOf(n) + Cardinality(ChecksOf(n)) = 1

\* A page URL of the urlset that another page links to was claimed as an
\* inner link: it is validated, its own page task was skipped, and a link
\* that two pages carry was validated once.
C7_Witness ==
    /\ site = "shared" /\ AtReport
    /\ Cardinality(ChecksOf(PageB)) = 1 /\ ExtractsOf(PageB) = 0
    /\ ExtractsOf(PageA) = 1
    /\ Cardinality(ChecksOf(PageX)) = 1

\* No two records of dead_links have the same "Dead Link".
C8_NoTwoRecordsForOneUrl ==
    \A i, j \in DOMAIN dead_links :
        i # j => dead_links[i]["Dead Link"] # dead_links[j]["Dead Link"]

C9_Dead(st) == st.kind = "err" \/ (st.kind = "int" /\ st.code >= 400)

\* The string r occurs in the string d.
C9_Occurs(r, d) ==
    \E i \in 1..(Len(d) + 1) :
        i + Len(r) - 1 <= Len(d) /\ SubSeq(d, i, i + Len(r) - 1) = r

\* The step in which the validation task t returns.
C9_Ends(t) ==
    tasks[t].kind = "check" /\ tasks[t].pc # "done" /\ tasks'[t].pc = "done"

\* C9: a validation task that ends after a transport failure or a status of
\* 400 or more has appended exactly one record, for its URL, classified
\* Internal exactly when the root domain occurs in the URL's domain; one that
\* ends after a status below 400 has appended nothing; no step of a
\* validation task changes the visited sets, and dead_links changes in no
\* other step.
C9_ValidatorOutcome ==
    [][/\ \A t \in DOMAIN tasks :
            (tasks[t].kind = "check" /\ tasks'[t].pc # tasks[t].pc) =>
                /\ visited_links' = visited_links
                /\ visited_sitemaps' = visited_sitemaps
                /\ tasks'[t].pc # "done" => dead_links' = dead_links
       /\ \A t \in DOMAIN tasks :
            C9_Ends(t) =>
                IF C9_Dead(tasks'[t].status)
                THEN /\ Len(dead_links') = Len(dead_links) + 1
                     /\ SubSeq(dead_links', 1, Len(dead_links)) = dead_links
                     /\ LET r == dead_links'[Len(dead_links')] IN
                          /\ r["Dead Link"] = tasks[t].url
                          /\ r["Domain"] = tasks[t].url.host
                          /\ r["Status/Error"] = tasks'[t].status
                          /\ r["Type"] \in {"Internal", "External"}
                          /\ r["Type"] = "Internal" <=> C9_Occurs(root_domain, r["Domain"])
                ELSE dead_links' = dead_links
       /\ dead_links' # dead_links => \E t \in DOMAIN tasks : C9_Ends(t)
      ]_vars

\* A dead link on a subdomain of the root domain is recorded as Internal,
\* and a link that answered below 400 has no record.
C9_Witness ==
    /\ \E i \in DOMAIN dead_links :
          /\ dead_links[i]["Dead Link"] = CdnX
          /\ dead_links[i]["Domain"] # root_domain
          /\ dead_links[i]["Type"] = "Internal"
    /\ \E t \in ChecksOf(PageB) :
          /\ tasks[t].pc = "done" /\ IsLive(tasks[t].status)
          /\ \A i \in DOMAIN dead_links : dead_links[i]["Dead Link"] # PageB

\* A call of test_and_download_sitemaps is about to take its first entry path.
C10_StartOfCrawl == main_pc = "crawl" /\ path_idx = 1 /\ stack = <<>>

\* C10: when a call of test_and_download_sitemaps starts its crawl, the two
\* visited sets and the dead-link list are empty.
C10_CrawlStartsEmpty ==
    C10_StartOfCrawl =>
        /\ visited_sitemaps = {}
        /\ visited_links = {}
        /\ dead_links = <<>>

\* The work items that have not returned yet.
Unfinished == {t \in DOMAIN tasks : tasks[t].pc # "done"}

\* C11 as stated: the traversal that waits for its page tasks sits in a
\* worker thread of the pool, so with it active at most workers - 1 work
\* items run and, when the pool is smaller than the branching factor, the
\* page tasks it waits for stay queued.
C11_TraversalHoldsAWorker ==
    (main_pc = "crawl" /\ stack # <<>>) => Cardinality(Running) + 1 <= workers

\* C11 as amended: the traversal runs in the calling thread and holds no
\* worker, and no work item waits for another one; so whenever a work item
\* has not returned, a worker thread can take a step, for every pool size.
C11_NoStall ==
    /\ Unfinished # {} => ENABLED WorkerStep
    /\ \A t \in DOMAIN tasks : tasks[t].pc \notin {"wait", "nested", "download"}

\* The pool has one worker, the traversal waits for two page tasks: one of
\* them runs, the other is still queued.
C11_Witness ==
    /\ workers = 1
    /\ InFrame("wait") /\ Cardinality(Top.futures) >= 2
    /\ \E t, u \in Top.futures : tasks[t].pc = "queued" /\ tasks[u].pc \notin {"queued", "done"}

\* The page tasks and the validation tasks that have not returned yet.
UnfinishedPages == {t \in Unfinished : tasks[t].kind = "page"}
UnfinishedChecks == {t \in Unfinished : tasks[t].kind = "check"}

\* C12: while a page task is queued or running, the traversal is still in
\* the urlset frame that submitted it (submitting, or waiting for it), and no
\* sitemap is fetched in a step that starts with a page task unfinished.
C12_UrlsetWaitsForItsPages ==
    /\ [](\A t \in UnfinishedPages :
            /\ InFrame("submit") \/ InFrame("wait")
            /\ t \in Top.futures)
    /\ [][fetch_log' # fetch_log => UnfinishedPages = {}]_vars

\* A sitemap was fetched after a urlset with pages, while a validation task
\* that a page task of that urlset submitted is still queued or running.
C12_Witness ==
    /\ UnfinishedChecks # {}
    /\ \E i, j \in DOMAIN fetch_log :
          /\ i < j
          /\ SitemapDoc(site, fetch_log[i]).ok
          /\ SitemapDoc(site, fetch_log[i]).nested = <<>>
          /\ SitemapDoc(site, fetch_log[i]).pages # <<>>

\* C13: when the reporting phase reads visited_sitemaps and dead_links, no
\* work item is queued or running and dead_links_lock is free; no step taken
\* from there changes dead_links or visited_sitemaps.
C13_ReportReadsQuiescentState ==
    /\ [](AtReport => (Unfinished = {} /\ dead_links_lock = 0 /\ stack = <<>>))
    /\ [][AtReport => (dead_links' = dead_links /\ visited_sitemaps' = visited_sitemaps)]_vars

\* Reporting starts with records in the list, after validation tasks that
\* page tasks submitted have run.
C13_Witness ==
    /\ AtReport /\ crawls = 1
    /\ dead_links # <<>>
    /\ \E t \in DOMAIN tasks : tasks[t].kind = "check" /\ tasks[t].pc = "done"

\* The page tasks submitted so far.
PageTasks == {t \in DOMAIN tasks : tasks[t].kind = "page"}

\* The URLs of the sequence q.
Range(q) == {q[i] : i \in DOMAIN q}

\* C14: every page task was submitted for a page URL of a fetched document
\* that yields no nested sitemap; a frame of a document with nested sitemaps
\* holds exactly those, holds no future, and the frame above it is the
\* nested sitemap it reached last, in document order.
C14_IndexPrecedence ==
    /\ \A t \in PageTasks :
          \E u \in FetchedOk :
              /\ SitemapDoc(site, u).nested = <<>>
              /\ tasks[t].origin = LocalFile(u)
              /\ tasks[t].url \in Range(SitemapDoc(site, u).pages)
    /\ \A k \in DOMAIN stack :
          LET doc == SitemapDoc(site, stack[k].url) IN
          (stack[k].pc \notin {"enter", "download"} /\ doc.nested # <<>>) =>
              /\ stack[k].pc = "nested"
              /\ stack[k].items = doc.nested
              /\ stack[k].futures = {}
              /\ k < Len(stack) => stack[k + 1].url = doc.nested[stack[k].idx - 1]

\* A document with nested sitemaps and a page URL was fetched and walked to
\* its end: its nested sitemaps were taken, its page URL was never claimed,
\* while page tasks of a urlset did run.
C14_Witness ==
    /\ AtReport
    /\ \E u \in FetchedOk :
          /\ SitemapDoc(site, u).nested # <<>>
          /\ SitemapDoc(site, u).pages # <<>>
          /\ \A p \in Range(SitemapDoc(site, u).pages) : normalize_url(p) \notin visited_links
    /\ PageTasks # {}

\* The step in which download_sitemap returns None for the innermost frame.
C15_FetchFails == fetch_log' # fetch_log /\ ~SitemapDoc(site, Top.url).ok

\* C15: the step of a failed fetch only returns to the caller: no work item
\* is submitted, no frame is pushed, the link set, the dead-link list and the
\* sitemap set are unchanged and no exception is raised; and at the end of
\* the crawl every entry path and every nested sitemap of every fetched
\* index has been dispatched, whatever failed before it.
C15_FailedFetchPrunes ==
    /\ [][C15_FetchFails =>
            /\ stack' = Popped
            /\ tasks' = tasks
            /\ visited_links' = visited_links
            /\ dead_links' = dead_links
            /\ visited_sitemaps' = visited_sitemaps
            /\ main_pc' = "crawl" /\ raised' = FALSE /\ pool_open' = TRUE]_vars
    /\ [](AtReport =>
            /\ Range(SITEMAP_PATHS) \subseteq visited_sitemaps
            /\ \A u \in FetchedOk : Range(SitemapDoc(site, u).nested) \subseteq visited_sitemaps)

\* The fetch of a nested sitemap failed, and a sibling of its index that
\* came later was fetched and its pages were submitted.
C15_Witness ==
    /\ PageTasks # {}
    /\ \E i, j \in DOMAIN fetch_log :
          /\ i < j
          /\ ~SitemapDoc(site, fetch_log[i]).ok
          /\ fetch_log[i] \notin Range(SITEMAP_PATHS)
          /\ SitemapDoc(site, fetch_log[j]).pages # <<>>
          /\ SitemapDoc(site, fetch_log[j]).nested = <<>>

\* The validation tasks submitted so far, and those among them that were
\* submitted for a link found inside a page (their origin is that page).
CheckTasks == {t \in DOMAIN tasks : tasks[t].kind = "check"}
InnerLinkChecks == {t \in CheckTasks : is_valid_http_url(tasks[t].origin)}

\* C16: extractions plus validations never outnumber the links claimed in
\* visited_links; every extraction was made by a page task, for its own
\* link; a link found inside a page is claimed and validated, and is not
\* extracted from.
C16_WorkBoundedByRegistry ==
    /\ Len(extract_log) + Cardinality(CheckTasks) <= Cardinality(visited_links)
    /\ \A i \in DOMAIN extract_log :
          \E t \in PageTasks : tasks[t].norm = extract_log[i]
    /\ \A t \in InnerLinkChecks :
          /\ tasks[t].url \in visited_links
          /\ ExtractsOf(tasks[t].url) = 0
          /\ ExtractsOf(tasks[t].origin) = 1

\* A link found inside a page is itself an HTML page with links of its own:
\* at the end of the crawl it was validated and never extracted from, and
\* every claimed link accounts for one operation.
C16_Witness ==
    /\ AtReport
    /\ \E t \in InnerLinkChecks :
          /\ PageLinks(site, tasks[t].url) # <<>>
          /\ tasks[t].pc = "done"
    /\ Len(extract_log) + Cardinality(CheckTasks) = Cardinality(visited_links)
    /\ Cardinality(visited_links) >= 4

\* dead_links as a set of records.
DeadRecordSet == Range(dead_links)

\* The records a crawl of the site leaves when the pool has one worker, so
\* that the work items run one after the other in submission order.
OneWorkerRecords(s) ==
    CASE s = "scenario" ->
            {DeadLinkRecord(PageMissing, PageA, Status(404))}
      [] s = "shared" ->
            {DeadLinkRecord(PageB, PageA, Status(500)),
             DeadLinkRecord(PageX, PageA, Status(404)),
             DeadLinkRecord(OtherD, PageA, Status(404))}
      [] s = "cyclic" ->
            {DeadLinkRecord(PageMissing, PageA, Status(404)),
             DeadLinkRecord(CdnX, PageA, Status(404)),
             DeadLinkRecord(AssetJs, LocalFile("/s1.xml"), TransportError)}
      [] OTHER -> {}

\* With one worker the crawl ends with exactly those records.
OneWorkerResult ==
    (AtReport /\ workers = 1) => DeadRecordSet = OneWorkerRecords(site)

\* C17: for a fixed site the set of dead-link records at the end of the
\* crawl is the same in every interleaving of the page and validation tasks:
\* the one that the run with a single worker produces.
C17_SameRecordsInEveryInterleaving ==
    AtReport => DeadRecordSet = OneWorkerRecords(site)

\* C18: no work item is submitted once the shutdown of the pool has begun:
\* no submit is refused, the pool is open at every step that adds a work
\* item, the only work items left when the with-block is exited are
\* validation tasks (which submit nothing), and at the report every claimed
\* link has had its extraction or its validation task.
C18_NoSubmitAfterShutdown ==
    /\ [](rejected = 0)
    /\ [](~pool_open => UnfinishedPages = {})
    /\ [][Len(tasks') > Len(tasks) => (pool_open /\ pool_open')]_vars
    /\ [](AtReport => Len(extract_log) + Cardinality(CheckTasks)
                         = Cardinality(visited_links))

\* The shutdown has begun while validation tasks submitted by page tasks are
\* still queued or running.
C18_Witness ==
    /\ main_pc = "shutdown" /\ ~pool_open
    /\ \E t \in UnfinishedChecks : \E p \in PageTasks :
          /\ tasks[t].origin = tasks[p].norm
          /\ tasks[p].pc = "done"
    /\ \E t \in UnfinishedChecks : tasks[t].pc = "queued"

====
